---- MODULE Spec2Model ----
(***************************************************************************)
(* Array-backed binary heap (max or min ordering) of src/main.cpp:         *)
(* heapify_up_t, heapify_down_t, heapify_t, heap_t and heap_sort_t.        *)
(*                                                                         *)
(* Arrays are TLA+ sequences; the code's 0-based indexes are kept, and     *)
(* At(a, i) reads slot i.  Integer division follows C++ (truncation        *)
(* towards zero), so the parent index computed for node 0 is 0, not -1.    *)
(***************************************************************************)
EXTENDS Integers, Sequences, FiniteSets

\* ---------------------------------------------------------------- bounds
\* Largest heap / sort input explored by the arbitrary client.
MaxLen == 5
\* Element values of the arbitrary client are 0..MaxVal.
MaxVal == 2
\* How far past end() a misused insert position may point.
MaxSlack == 2

Values == 0..MaxVal

\* ------------------------------------------------------- program constants
max_heap_init_val == <<0, 1, 2, 3, 4, 5, 6, 7, 8, 9>>
min_heap_init_val == <<9, 8, 5, 6, 7, 1, 4, 0, 3, 2>>
sort_ascending_values == <<9, 8, 7, 6, 5, 4, 3, 2, 1, 0>>
sort_descending_values == <<0, 1, 2, 3, 4, 5, 6, 7, 8, 9>>

\* -------------------------------------------------------------- helpers
\* *(begin + i)
At(a, i) == a[i + 1]

\* std::swap(*(begin + i), *(begin + j))
Swap(a, i, j) == [a EXCEPT ![i + 1] = a[j + 1], ![j + 1] = a[i + 1]]

\* C++ signed integer division: truncation towards zero.
CDiv(x, y) == IF x >= 0 THEN x \div y ELSE -((-x) \div y)

\* cmp_op_type: std::greater for a max-heap, std::less for a min-heap.
Cmp(kind, x, y) == IF kind = "max" THEN x > y ELSE x < y

\* All sequences over S of length 0..n.
SeqsUpTo(S, n) == UNION {[1..k -> S] : k \in 0..n}

\* ------------------------------------------------------- index arithmetic
\* ~x & 0x1 for x >= 0: the lowest bit, flipped.
BitNotAnd1(x) == 1 - (x % 2)

\* Faulty offset: the parity test is inverted (x & 0x1 instead of ~x & 0x1).
precision_child_offset_inverted(node_idx) == (2 ^ (node_idx % 2)) % 4

\* child_offset with USE_PRECISION_CHILD_OFFSET: (1 << (~node_idx & 0x1)) & 0x3
precision_child_offset(node_idx) == (2 ^ BitNotAnd1(node_idx)) % 4

\* parent_idx with USE_PRECISION_CHILD_OFFSET
precision_parent_idx(node_idx) ==
    CDiv(node_idx - precision_child_offset(node_idx), 2)

\* parent_idx without it: child_offset = 1
direct_parent_idx(node_idx) == CDiv(node_idx - 1, 2)

RECURSIVE heapify_up_precision(_, _, _)
\* heapify_up_t::operator()(begin, node) built with USE_PRECISION_CHILD_OFFSET.
heapify_up_precision(kind, a, node) ==
    LET parent_idx == precision_parent_idx(node)
    IN  IF 0 <= parent_idx /\ Cmp(kind, At(a, node), At(a, parent_idx))
        THEN heapify_up_precision(kind, Swap(a, parent_idx, node), parent_idx)
        ELSE a

\* ---------------------------------------------------------------- sift-up
\* Faulty sift-up: swaps with the parent at most once instead of looping.
heapify_up_once(kind, a, node) ==
    LET parent_idx == CDiv(node - 1, 2)
    IN  IF 0 <= parent_idx /\ Cmp(kind, At(a, node), At(a, parent_idx))
        THEN Swap(a, parent_idx, node)
        ELSE a

RECURSIVE heapify_up_reversed(_, _, _)
\* Faulty sift-up: the arguments of the comparison are exchanged.
heapify_up_reversed(kind, a, node) ==
    LET parent_idx == CDiv(node - 1, 2)
    IN  IF 0 <= parent_idx /\ Cmp(kind, At(a, parent_idx), At(a, node))
        THEN heapify_up_reversed(kind, Swap(a, parent_idx, node), parent_idx)
        ELSE a

RECURSIVE heapify_up(_, _, _)
\* heapify_up_t::operator()(begin, node), iterative form.
heapify_up(kind, a, node) ==
    LET node_idx == node
        child_offset == 1
        parent_idx == CDiv(node_idx - child_offset, 2)
    IN  IF 0 <= parent_idx /\ Cmp(kind, At(a, node_idx), At(a, parent_idx))
        THEN heapify_up(kind, Swap(a, parent_idx, node_idx), parent_idx)
        ELSE a

RECURSIVE heapify_up_swaps(_, _, _)
\* The number of std::swap calls heapify_up_t::operator()(begin, node) makes.
heapify_up_swaps(kind, a, node) ==
    LET parent_idx == CDiv(node - 1, 2)
    IN  IF 0 <= parent_idx /\ Cmp(kind, At(a, node), At(a, parent_idx))
        THEN 1 + heapify_up_swaps(kind, Swap(a, parent_idx, node), parent_idx)
        ELSE 0

\* -------------------------------------------------------------- sift-down
RECURSIVE heapify_down_left_only(_, _, _, _)
\* Faulty sift-down: never looks at the right child.
heapify_down_left_only(kind, a, ary_size, node) ==
    LET left_child_idx == node * 2 + 1
        child == IF ary_size > left_child_idx
                    /\ Cmp(kind, At(a, left_child_idx), At(a, node))
                 THEN left_child_idx ELSE node
    IN  IF node = child
        THEN a
        ELSE heapify_down_left_only(kind, Swap(a, child, node), ary_size, child)

RECURSIVE heapify_down_vs_node(_, _, _, _)
\* Faulty sift-down: compares the right child with the node instead of with
\* the better of node and left child.
heapify_down_vs_node(kind, a, ary_size, node) ==
    LET left_child_idx == node * 2 + 1
        child1 == IF ary_size > left_child_idx
                     /\ Cmp(kind, At(a, left_child_idx), At(a, node))
                  THEN left_child_idx ELSE node
        right_child_idx == node * 2 + 2
        child == IF ary_size > right_child_idx
                    /\ Cmp(kind, At(a, right_child_idx), At(a, node))
                 THEN right_child_idx ELSE child1
    IN  IF node = child
        THEN a
        ELSE heapify_down_vs_node(kind, Swap(a, child, node), ary_size, child)

\* Faulty choice: the left child is taken as soon as it is before the node,
\* without looking at the right child.
heapify_down_child_left_first(kind, a, ary_size, node_idx) ==
    LET left_child_idx == node_idx * 2 + 1
        right_child_idx == node_idx * 2 + 2
    IN  IF ary_size > left_child_idx
           /\ Cmp(kind, At(a, left_child_idx), At(a, node_idx))
        THEN left_child_idx
        ELSE IF ary_size > right_child_idx
                /\ Cmp(kind, At(a, right_child_idx), At(a, node_idx))
        THEN right_child_idx
        ELSE node_idx

\* Faulty choice: children are bounded by the whole memory, not by ary_size.
heapify_down_child_unbounded(kind, a, ary_size, node_idx) ==
    LET left_child_idx == node_idx * 2 + 1
        child1 == IF Len(a) > left_child_idx
                     /\ Cmp(kind, At(a, left_child_idx), At(a, node_idx))
                  THEN left_child_idx ELSE node_idx
        right_child_idx == node_idx * 2 + 2
    IN  IF Len(a) > right_child_idx
           /\ Cmp(kind, At(a, right_child_idx), At(a, child1))
        THEN right_child_idx ELSE child1

\* One iteration of heapify_down_t::operator(): the value of child when
\* node == child is tested.
heapify_down_child(kind, a, ary_size, node_idx) ==
    LET left_child_idx == node_idx * 2 + 1
        child1 == IF ary_size > left_child_idx
                     /\ Cmp(kind, At(a, left_child_idx), At(a, node_idx))
                  THEN left_child_idx ELSE node_idx
        right_child_idx == node_idx * 2 + 2
    IN  IF ary_size > right_child_idx
           /\ Cmp(kind, At(a, right_child_idx), At(a, child1))
        THEN right_child_idx ELSE child1

\* One iteration of heapify_down_t::operator(): the indexes it dereferences.
heapify_down_reads(kind, a, ary_size, node_idx) ==
    LET left_child_idx == node_idx * 2 + 1
        child1 == IF ary_size > left_child_idx
                     /\ Cmp(kind, At(a, left_child_idx), At(a, node_idx))
                  THEN left_child_idx ELSE node_idx
        right_child_idx == node_idx * 2 + 2
        child == heapify_down_child(kind, a, ary_size, node_idx)
    IN  (IF ary_size > left_child_idx THEN {left_child_idx, node_idx} ELSE {})
        \cup (IF ary_size > right_child_idx THEN {right_child_idx, child1} ELSE {})
        \cup (IF node_idx = child THEN {} ELSE {child, node_idx})

RECURSIVE heapify_down(_, _, _, _)
\* heapify_down_t::operator()(begin, end, node); ary_size = end - begin.
heapify_down(kind, a, ary_size, node) ==
    LET node_idx == node
        child == heapify_down_child(kind, a, ary_size, node_idx)
        value_has_stopped_moving == node_idx = child
    IN  IF value_has_stopped_moving
        THEN a
        ELSE heapify_down(kind, Swap(a, child, node_idx), ary_size, child)

\* ------------------------------------------------------------- build-heap
RECURSIVE heapify_from(_, _, _)
\* The loop of heapify_t::operator(): sift-up of iter, iter + 1, ..., end - 1.
\* The array after one sift-up is bound as a value (sifted) before the loop
\* goes on, so that it is computed once.
heapify_from(kind, a, iter) ==
    IF iter >= Len(a) THEN a
    ELSE CHOOSE r \in {heapify_from(kind, sifted, iter + 1) :
                            sifted \in {heapify_up(kind, a, iter)}} : TRUE

RECURSIVE heapify_bottom_up_from(_, _, _)
heapify_bottom_up_from(kind, a, node) ==
    IF node < 0 THEN a
    ELSE heapify_bottom_up_from(kind, heapify_down(kind, a, Len(a), node), node - 1)

\* A different build: sift-down of every node from the last parent to the root.
heapify_bottom_up(kind, a) == heapify_bottom_up_from(kind, a, CDiv(Len(a), 2) - 1)

\* heapify_t::operator()(begin, end)
heapify(kind, a) == heapify_from(kind, a, 0)

RECURSIVE heapify_swaps_from(_, _, _)
\* The number of std::swap calls the loop of heapify_t::operator() makes.
heapify_swaps_from(kind, a, iter) ==
    IF iter >= Len(a) THEN 0
    ELSE heapify_up_swaps(kind, a, iter)
         + heapify_swaps_from(kind, heapify_up(kind, a, iter), iter + 1)

\* The number of std::swap calls heapify_t::operator()(begin, end) makes.
heapify_swaps(kind, a) == heapify_swaps_from(kind, a, 0)

\* ---------------------------------------------------------- heap_t methods
\* heap_t(begin, end): array_(begin, end), then heapify.
construct(kind, xs) == heapify(kind, xs)

\* heap_t::push
push(kind, a, value) ==
    LET appended == Append(a, value)
    IN  heapify_up(kind, appended, Len(appended) - 1)

\* Faulty pop: shrinks without swapping the root to the end first.
pop_drop_last(kind, a) ==
    LET resized == SubSeq(a, 1, Len(a) - 1)
    IN  heapify_down(kind, resized, Len(resized), 0)

\* heap_t::pop on a non-empty heap
pop(kind, a) ==
    LET swapped == Swap(a, 0, Len(a) - 1)
        resized == SubSeq(swapped, 1, Len(a) - 1)
    IN  heapify_down(kind, resized, Len(resized), 0)

\* Faulty insert: the sift direction is reversed.
insert_at_reversed(kind, mem, ary_size, position, value) ==
    IF At(mem, position) = value
    THEN [mem EXCEPT ![position + 1] = value]
    ELSE LET move_value_up_tree == Cmp(kind, value, At(mem, position))
             written == [mem EXCEPT ![position + 1] = value]
         IN  IF move_value_up_tree
             THEN heapify_down(kind, written, ary_size, position)
             ELSE heapify_up(kind, written, position)

\* The branches of heap_t::insert taken when end() != position.  mem is the
\* memory the iterators range over and ary_size = end() - begin(); for a
\* position inside the heap mem is the array itself.
insert_at(kind, mem, ary_size, position, value) ==
    IF At(mem, position) = value
    THEN [mem EXCEPT ![position + 1] = value]
    ELSE LET move_value_up_tree == Cmp(kind, value, At(mem, position))
             written == [mem EXCEPT ![position + 1] = value]
         IN  IF move_value_up_tree
             THEN heapify_up(kind, written, position)
             ELSE heapify_down(kind, written, ary_size, position)

\* Faulty insert: takes the last element's position for end().
insert_off_by_one(kind, a, position, value) ==
    IF Len(a) = position \/ Len(a) - 1 = position
    THEN push(kind, a, value)
    ELSE insert_at(kind, a, Len(a), position, value)

\* Faulty insert: at end() the value is appended and not sifted up.
insert_append_only(kind, a, position, value) ==
    IF Len(a) = position
    THEN Append(a, value)
    ELSE insert_at(kind, a, Len(a), position, value)

\* heap_t::insert(position, value) with position in [begin(), end()]
insert(kind, a, position, value) ==
    IF Len(a) = position
    THEN push(kind, a, value)
    ELSE insert_at(kind, a, Len(a), position, value)

\* for (...; !heap.empty(); ...) heap.pop_value(): the values extracted, in
\* order, by the draining loop of the test cases.
RECURSIVE drain(_, _)
drain(kind, a) ==
    IF Len(a) = 0 THEN <<>>
    ELSE <<At(a, 0)>> \o drain(kind, pop(kind, a))

\* --------------------------------------------------------------- heap sort
\* Faulty iteration: stores in the vacated slot the value that was moved to
\* the root, not the saved root value.
heap_sort_iteration_store_moved(kind, a, end) ==
    LET moved == [a EXCEPT ![1] = At(a, end - 1)]
        new_end == end - 1
        sifted == heapify_down(kind, moved, new_end, 0)
    IN  [sifted EXCEPT ![new_end + 1] = At(a, end - 1)]

\* One iteration of the while loop of heap_sort_t::operator(): the array
\* after it, for the active range [0, end).
heap_sort_iteration(kind, a, end) ==
    LET next_value == At(a, 0)
        moved == [a EXCEPT ![1] = At(a, end - 1)]
        new_end == end - 1
        sifted == heapify_down(kind, moved, new_end, 0)
    IN  [sifted EXCEPT ![new_end + 1] = next_value]

RECURSIVE heap_sort_loop(_, _, _)
\* while (begin < end) { ... } of heap_sort_t::operator().
heap_sort_loop(kind, a, end) ==
    IF 0 < end
    THEN heap_sort_loop(kind, heap_sort_iteration(kind, a, end), end - 1)
    ELSE a

\* heap_sort_t::operator()(begin, end): the array when the call returns.
heap_sort(kind, a) ==
    IF Len(a) = 0 THEN a
    ELSE heap_sort_loop(kind, heapify(kind, a), Len(a))

\* ------------------------------------------------------------------ state
VARIABLES
    scenario,   \* who drives the heap: "any" client, a "test" case, or "sort"
    kind,       \* "max" (std::greater) or "min" (std::less)
    array,      \* heap_t::array_
    pre,        \* array_ as it was when the last call started
    op,         \* the last call: name, arguments, value returned, exception
    out,        \* values returned by the pop_value calls made in a row
    s_in,       \* heap sort: the caller's array before the call
    s_ary,      \* heap sort: the caller's array
    s_end,      \* heap sort: end - begin
    s_pc,       \* heap sort: position in heap_sort_t::operator()
    f_op,       \* sift: "up", "down" or "build" (the loop of heapify_t)
    f_in,       \* sift: the memory when the call started
    f_ary,      \* sift: the memory [begin, ...)
    f_size,     \* sift: ary_size = end - begin
    f_start,    \* sift: node as passed by the caller
    f_node,     \* sift: node - begin (build: iter - begin)
    f_from,     \* sift: node - begin at the start of the last iteration, or -1
    f_pc,       \* sift: "run" inside the loop, "done" after it
    f_reads,    \* sift: indexes dereferenced so far
    f_writes    \* sift: indexes written so far

heapvars == <<array, pre, op, out>>
sortvars == <<s_in, s_ary, s_end, s_pc>>
siftvars == <<f_op, f_in, f_ary, f_size, f_start, f_node, f_from, f_pc, f_reads, f_writes>>
vars == <<scenario, kind, array, pre, op, out, s_in, s_ary, s_end, s_pc,
          f_op, f_in, f_ary, f_size, f_start, f_node, f_from, f_pc, f_reads, f_writes>>

\* A call record.  result is <<>> or <<value returned>>; error is "none", the
\* what() of the exception thrown, or "crash".
Call(name, input, pos, value, result, error) ==
    [name |-> name, input |-> input, pos |-> pos, value |-> value,
     result |-> result, error |-> error]

NoCall == Call("none", <<>>, 0, 0, <<>>, "none")

Kinds == {"max", "min"}

\* The process is running (a crash ends it).
Alive == op.error # "crash"

\* ------------------------------------------------------------------- Init
\* A heap constructed by an arbitrary client from any input.
InitClient ==
    /\ scenario = "any"
    /\ kind \in Kinds
    /\ \E xs \in SeqsUpTo(Values, MaxLen) :
          /\ array = construct(kind, xs)
          /\ pre = xs
          /\ op = Call("construct", xs, 0, 0, <<>>, "none")

\* The heaps the test cases construct.
InitTest ==
    /\ scenario = "test"
    /\ \/ /\ kind = "max"
          /\ array = construct("max", max_heap_init_val)
          /\ pre = max_heap_init_val
          /\ op = Call("construct", max_heap_init_val, 0, 0, <<>>, "none")
       \/ /\ kind = "min"
          /\ array = construct("min", min_heap_init_val)
          /\ pre = min_heap_init_val
          /\ op = Call("construct", min_heap_init_val, 0, 0, <<>>, "none")

SortIdle ==
    /\ s_in = <<>>
    /\ s_ary = <<>>
    /\ s_end = 0
    /\ s_pc = "idle"

SiftIdle ==
    /\ f_op = "idle"
    /\ f_in = <<>>
    /\ f_ary = <<>>
    /\ f_size = 0
    /\ f_start = 0
    /\ f_node = 0
    /\ f_from = -1
    /\ f_pc = "idle"
    /\ f_reads = {}
    /\ f_writes = {}

HeapIdle ==
    /\ array = <<>>
    /\ pre = <<>>
    /\ op = NoCall
    /\ out = <<>>

Init ==
    /\ InitClient \/ InitTest
    /\ out = <<>>
    /\ SortIdle
    /\ SiftIdle

\* ---------------------------------------------------------------- actions
\* heap.push(v)
DoPush(v) ==
    /\ Alive
    /\ array' = push(kind, array, v)
    /\ pre' = array
    /\ op' = Call("push", <<>>, 0, v, <<>>, "none")
    /\ out' = <<>>
    /\ UNCHANGED <<scenario, kind, sortvars, siftvars>>

\* heap.insert(begin() + p, v) with begin() + p in [begin(), end()]
DoInsert(p, v) ==
    /\ Alive
    /\ array' = insert(kind, array, p, v)
    /\ pre' = array
    /\ op' = Call("insert", <<>>, p, v, <<>>, "none")
    /\ out' = <<>>
    /\ UNCHANGED <<scenario, kind, sortvars, siftvars>>

ClientPush ==
    /\ scenario = "any"
    /\ Len(array) < MaxLen
    /\ \E v \in Values : DoPush(v)

ClientInsert ==
    /\ scenario = "any"
    /\ \E p \in 0..Len(array), v \in Values :
          /\ p = Len(array) => Len(array) < MaxLen
          /\ DoInsert(p, v)

RECURSIVE PathToRoot(_)
\* The slots heapify_up can touch when started at node: node, its parent, ...
PathToRoot(node) ==
    IF node = 0 THEN {0} ELSE {node} \cup PathToRoot(CDiv(node - 1, 2))

RECURSIVE SlotsPastEnd(_, _, _)
\* The slots from..to of the memory past end(): beyond gives the
\* indeterminate values of those insert can read; the others are never read
\* and are shown as 0.
SlotsPastEnd(from, to, beyond) ==
    IF from > to THEN <<>>
    ELSE <<IF from \in DOMAIN beyond THEN beyond[from] ELSE 0>>
         \o SlotsPastEnd(from + 1, to, beyond)

\* The memory [begin(), begin() + p] when p is past end(): the array, then
\* slots that are not the heap's.
MemoryPastEnd(a, p, beyond) == a \o SlotsPastEnd(Len(a), p, beyond)

\* heap.insert(begin() + p, v) with begin() + p past end(): the code checks
\* nothing, so *position reads and writes memory outside the array.  The
\* slots past the end hold indeterminate values; the call either crashes or
\* runs insert's branches over that memory.
ClientInsertPastEnd ==
    /\ scenario = "any"
    /\ Alive
    /\ \E p \in (Len(array) + 1)..(Len(array) + MaxSlack), v \in Values :
          /\ pre' = array
          /\ out' = <<>>
          /\ \/ /\ op' = Call("insert", <<>>, p, v, <<>>, "crash")
                /\ array' = array
             \/ \E beyond \in [{i \in PathToRoot(p) : i >= Len(array)} -> Values] :
                   /\ op' = Call("insert", <<>>, p, v, <<>>, "none")
                   /\ array' = SubSeq(insert_at(kind, MemoryPastEnd(array, p, beyond),
                                                Len(array), p, v),
                                      1, Len(array))
    /\ UNCHANGED <<scenario, kind, sortvars, siftvars>>

\* TEST_CASE max_heap_push / min_heap_push: heap.push(10)
TestPush ==
    /\ scenario = "test"
    /\ op.name = "construct"
    /\ DoPush(10)

\* TEST_CASE *_heap_increment / _decrement / _insert_same:
\* heap.insert(position of the element 5, 10 or -1 or 5)
TestInsert ==
    /\ scenario = "test"
    /\ op.name = "construct"
    /\ \E p \in 0..(Len(array) - 1), v \in {10, -1, 5} :
          /\ At(array, p) = 5
          /\ DoInsert(p, v)

\* Faulty top: removes the head element, as its \brief says.
Top_removes ==
    /\ Alive
    /\ scenario \in {"any", "test"}
    /\ pre' = array
    /\ IF Len(array) = 0
       THEN /\ op' = Call("top", <<>>, 0, 0, <<>>, "empty")
            /\ UNCHANGED array
       ELSE /\ op' = Call("top", <<>>, 0, 0, <<At(array, 0)>>, "none")
            /\ array' = pop(kind, array)
    /\ UNCHANGED <<scenario, kind, out, sortvars, siftvars>>

\* heap.top()
Top ==
    /\ Alive
    /\ scenario \in {"any", "test"}
    /\ pre' = array
    /\ IF Len(array) = 0
       THEN op' = Call("top", <<>>, 0, 0, <<>>, "empty")
       ELSE op' = Call("top", <<>>, 0, 0, <<At(array, 0)>>, "none")
    /\ UNCHANGED <<scenario, kind, array, out, sortvars, siftvars>>

\* heap.pop()
Pop ==
    /\ Alive
    /\ scenario \in {"any", "test"}
    /\ pre' = array
    /\ IF Len(array) = 0
       THEN /\ op' = Call("pop", <<>>, 0, 0, <<>>, "empty")
            /\ UNCHANGED <<array, out>>
       ELSE /\ op' = Call("pop", <<>>, 0, 0, <<>>, "none")
            /\ array' = pop(kind, array)
            /\ out' = <<>>
    /\ UNCHANGED <<scenario, kind, sortvars, siftvars>>

\* Faulty pop_value: no emptiness test, a default value is returned silently.
PopValue_no_check ==
    /\ Alive
    /\ scenario \in {"any", "test"}
    /\ pre' = array
    /\ IF Len(array) = 0
       THEN /\ op' = Call("pop_value", <<>>, 0, 0, <<0>>, "none")
            /\ UNCHANGED <<array, out>>
       ELSE LET result == At(array, 0)
            IN  /\ op' = Call("pop_value", <<>>, 0, 0, <<result>>, "none")
                /\ array' = pop(kind, array)
                /\ out' = Append(out, result)
    /\ UNCHANGED <<scenario, kind, sortvars, siftvars>>

\* heap.pop_value()
PopValue ==
    /\ Alive
    /\ scenario \in {"any", "test"}
    /\ pre' = array
    /\ IF Len(array) = 0
       THEN /\ op' = Call("pop_value", <<>>, 0, 0, <<>>, "empty")
            /\ UNCHANGED <<array, out>>
       ELSE LET result == At(array, 0)
            IN  /\ op' = Call("pop_value", <<>>, 0, 0, <<result>>, "none")
                /\ array' = pop(kind, array)
                /\ out' = Append(out, result)
    /\ UNCHANGED <<scenario, kind, sortvars, siftvars>>

Next ==
    \/ ClientPush
    \/ ClientInsert
    \/ ClientInsertPastEnd
    \/ TestPush
    \/ TestInsert
    \/ Top
    \/ Pop
    \/ PopValue

Spec == Init /\ [][Next]_vars

\* ------------------------------------------------------- heap sort machine
MaxSortLen == 6

InitSort ==
    /\ scenario = "sort"
    /\ kind \in Kinds
    /\ \/ s_in \in SeqsUpTo(Values, MaxSortLen)
       \/ kind = "max" /\ s_in = sort_ascending_values
       \/ kind = "min" /\ s_in = sort_descending_values
    /\ s_ary = s_in
    /\ s_end = Len(s_in)
    /\ s_pc = "call"
    /\ HeapIdle
    /\ SiftIdle

\* heap_sort_t::operator(): the emptiness test and the build phase.
SortBuild ==
    /\ s_pc = "call"
    /\ IF s_end = 0
       THEN /\ s_pc' = "done"
            /\ UNCHANGED s_ary
       ELSE /\ s_ary' = heapify(kind, s_ary)
            /\ s_pc' = "loop"
    /\ UNCHANGED <<scenario, kind, heapvars, siftvars, s_in, s_end>>

\* One iteration of while (begin < end).
SortExtract ==
    /\ s_pc = "loop"
    /\ 0 < s_end
    /\ s_ary' = heap_sort_iteration(kind, s_ary, s_end)
    /\ s_end' = s_end - 1
    /\ UNCHANGED <<scenario, kind, heapvars, siftvars, s_in, s_pc>>

\* The loop test fails: the call returns.
SortReturn ==
    /\ s_pc = "loop"
    /\ ~(0 < s_end)
    /\ s_pc' = "done"
    /\ UNCHANGED <<scenario, kind, heapvars, siftvars, s_in, s_ary, s_end>>

NextSort ==
    \/ SortBuild
    \/ SortExtract
    \/ SortReturn

SpecSort == InitSort /\ [][NextSort]_vars

\* ----------------------------------------------------------- sift machine
\* The loops of heapify_up_t, heapify_down_t and heapify_t, one iteration
\* per step, on any memory.
MaxSiftLen == 5

\* Before any call: the heap type (max or min) is fixed at compile time.
InitSteps ==
    /\ scenario = "steps"
    /\ kind \in Kinds
    /\ HeapIdle
    /\ SortIdle
    /\ SiftIdle

\* A call of heapify_up_t, heapify_down_t or heapify_t: the arguments.
CallSift ==
    /\ scenario = "steps"
    /\ scenario' = "sift"
    /\ f_in' \in SeqsUpTo(Values, MaxSiftLen)
    /\ f_ary' = f_in'
    /\ \/ /\ f_op' = "up"
          /\ f_size' = Len(f_in')
          /\ f_start' \in 0..(Len(f_in') - 1)
       \/ /\ f_op' = "down"
          /\ f_size' \in 0..Len(f_in')
          /\ f_start' \in {0} \cup (0..(Len(f_in') - 1))
       \/ /\ f_op' = "build"
          /\ f_size' = Len(f_in')
          /\ f_start' = 0
    /\ f_node' = f_start'
    /\ f_pc' = "run"
    /\ UNCHANGED <<kind, heapvars, sortvars, f_from, f_reads, f_writes>>

\* A call of heap_sort_t: the arguments.
CallSort ==
    /\ scenario = "steps"
    /\ scenario' = "sort"
    /\ s_in' \in SeqsUpTo(Values, MaxSortLen)
    /\ s_ary' = s_in'
    /\ s_end' = Len(s_in')
    /\ s_pc' = "call"
    /\ UNCHANGED <<kind, heapvars, siftvars>>

\* Faulty iteration: the comparison is not strict, so a node equal to its
\* parent (the root compared with itself) keeps being swapped.
UpStep_not_strict ==
    /\ f_op = "up"
    /\ f_pc = "run"
    /\ LET parent_idx == direct_parent_idx(f_node)
       IN  /\ f_from' = f_node
           /\ f_reads' = f_reads \cup {f_node, parent_idx}
           /\ IF 0 <= parent_idx
                 /\ ~Cmp(kind, At(f_ary, parent_idx), At(f_ary, f_node))
              THEN /\ f_ary' = Swap(f_ary, parent_idx, f_node)
                   /\ f_writes' = f_writes \cup {f_node, parent_idx}
                   /\ f_node' = parent_idx
                   /\ UNCHANGED f_pc
              ELSE /\ f_pc' = "done"
                   /\ UNCHANGED <<f_ary, f_writes, f_node>>
    /\ UNCHANGED <<scenario, kind, heapvars, sortvars, f_op, f_in, f_size, f_start>>

\* One iteration of while (true) in heapify_up_t::operator().
UpStep ==
    /\ f_op = "up"
    /\ f_pc = "run"
    /\ LET parent_idx == direct_parent_idx(f_node)
       IN  /\ f_from' = f_node
           /\ f_reads' = f_reads \cup {f_node, parent_idx}
           /\ IF 0 <= parent_idx
                 /\ Cmp(kind, At(f_ary, f_node), At(f_ary, parent_idx))
              THEN /\ f_ary' = Swap(f_ary, parent_idx, f_node)
                   /\ f_writes' = f_writes \cup {f_node, parent_idx}
                   /\ f_node' = parent_idx
                   /\ UNCHANGED f_pc
              ELSE /\ f_pc' = "done"
                   /\ UNCHANGED <<f_ary, f_writes, f_node>>
    /\ UNCHANGED <<scenario, kind, heapvars, sortvars, f_op, f_in, f_size, f_start>>

\* One iteration of while (true) in heapify_down_t::operator().
DownStep ==
    /\ f_op = "down"
    /\ f_pc = "run"
    /\ LET child == heapify_down_child(kind, f_ary, f_size, f_node)
       IN  /\ f_from' = f_node
           /\ f_reads' = f_reads \cup heapify_down_reads(kind, f_ary, f_size, f_node)
           /\ IF f_node = child
              THEN /\ f_pc' = "done"
                   /\ UNCHANGED <<f_ary, f_writes, f_node>>
              ELSE /\ f_ary' = Swap(f_ary, child, f_node)
                   /\ f_writes' = f_writes \cup {child, f_node}
                   /\ f_node' = child
                   /\ UNCHANGED f_pc
    /\ UNCHANGED <<scenario, kind, heapvars, sortvars, f_op, f_in, f_size, f_start>>

\* One iteration of for (iter = begin; end != iter; ++iter) in
\* heapify_t::operator(), or its exit.
BuildStep ==
    /\ f_op = "build"
    /\ f_pc = "run"
    /\ IF f_size # f_node
       THEN /\ f_ary' = heapify_up(kind, f_ary, f_node)
            /\ f_from' = f_node
            /\ f_node' = f_node + 1
            /\ UNCHANGED f_pc
       ELSE /\ f_pc' = "done"
            /\ UNCHANGED <<f_ary, f_from, f_node>>
    /\ UNCHANGED <<scenario, kind, heapvars, sortvars, f_op, f_in, f_size, f_start,
                   f_reads, f_writes>>

NextSift ==
    \/ UpStep
    \/ DownStep
    \/ BuildStep

\* The loops of the sifts, of the build and of heap sort, run without
\* interruption: a loop that can take a step takes it.
NextSteps ==
    \/ CallSift
    \/ CallSort
    \/ NextSift
    \/ NextSort

SpecSteps == InitSteps /\ [][NextSteps]_vars /\ WF_vars(NextSteps)

\* ================================================================= claims
\* Vocabulary of the claims.
Count(a, v) == Cardinality({i \in DOMAIN a : a[i] = v})

ValuesOf(a) == {a[i] : i \in DOMAIN a}

SameElements(a, b) ==
    /\ Len(a) = Len(b)
    /\ \A v \in ValuesOf(a) \cup ValuesOf(b) : Count(a, v) = Count(b, v)

\* x may precede y in an extraction sequence of a heap of the given kind.
InOrder(knd, x, y) == IF knd = "max" THEN x >= y ELSE x <= y

Monotone(knd, a) == \A i, j \in DOMAIN a : i < j => InOrder(knd, a[i], a[j])

\* The last call was insert at an existing position and returned.
InsertedAtExisting ==
    /\ op.name = "insert"
    /\ op.error = "none"
    /\ op.pos < Len(pre)

\* ---- C1
\* C1 as written: in every state of the heap, each parent is strictly
\* before each of its children (a > b in a max-heap, a < b in a min-heap).
C1_StrictHeapOrder ==
    \A i \in 0..(Len(array) - 1) : \A c \in {2 * i + 1, 2 * i + 2} :
        c < Len(array) => Cmp(kind, At(array, i), At(array, c))

\* C1 amended: after construction and after every push, pop and insert, each
\* parent is strictly before each of its children or equal to it.
C1_HeapOrder ==
    \A i \in 0..(Len(array) - 1) : \A c \in {2 * i + 1, 2 * i + 2} :
        c < Len(array) =>
            \/ Cmp(kind, At(array, i), At(array, c))
            \/ At(array, i) = At(array, c)

C1_Witness ==
    /\ op.name = "insert"
    /\ op.error = "none"
    /\ Len(array) >= 4
    /\ At(array, 0) = At(array, 1)
    /\ At(array, 1) # At(array, 3)

\* ---- C2
\* C2: after construction from any input and after every push, pop and
\* insert, no child is before its parent: for every index i >= 1,
\* before(seq[i], seq[(i-1)/2]) is false.
C2_NoChildBeforeParent ==
    \A i \in 1..(Len(array) - 1) :
        ~Cmp(kind, At(array, i), At(array, CDiv(i - 1, 2)))

C2_Witness ==
    /\ op.name = "pop"
    /\ op.error = "none"
    /\ Len(array) >= 3
    /\ \E i, j \in DOMAIN array : i # j /\ array[i] = array[j]
    /\ array # pre

\* ---- C3
\* C3: the values returned by pop_value calls made in a row are
\* non-increasing for a max-heap and non-decreasing for a min-heap, and
\* each one is an extremal element of the heap it was popped from.
C3_PopOrdering ==
    /\ Monotone(kind, out)
    /\ (op.name = "pop_value" /\ op.error = "none") =>
          /\ Len(out) >= 1
          /\ op.result = <<out[Len(out)]>>
          /\ \A i \in DOMAIN pre : InOrder(kind, op.result[1], pre[i])

C3_Witness ==
    /\ scenario = "any"
    /\ Len(array) = 0
    /\ Len(out) = MaxLen
    /\ out[1] # out[2]
    /\ out[2] # out[Len(out)]

\* ---- C4
\* C4: the heap conserves its contents as a multiset: construction holds
\* exactly the input's elements; push adds one occurrence of the value;
\* pop_value returns the element at index 0 and removes one occurrence of
\* it; insert at an existing position replaces one occurrence of the old
\* value by the new one; draining a heap extracts a permutation of it.
C4_Conservation ==
    /\ op.name = "construct" => SameElements(array, op.input)
    /\ op.name = "push" => SameElements(array, Append(pre, op.value))
    /\ (op.name = "pop_value" /\ op.error = "none") =>
          /\ op.result = <<At(pre, 0)>>
          /\ SameElements(Append(array, op.result[1]), pre)
    /\ InsertedAtExisting =>
          SameElements(Append(array, At(pre, op.pos)), Append(pre, op.value))
    /\ Alive => SameElements(drain(kind, array), array)

C4_Witness ==
    /\ InsertedAtExisting
    /\ Len(pre) >= 3
    /\ At(pre, op.pos) # op.value
    /\ Count(pre, op.value) >= 1
    /\ array # [pre EXCEPT ![op.pos + 1] = op.value]

\* ---- C5
\* C5: when heap sort returns, the array is the sorted permutation of the
\* input: non-decreasing for heap_sort_ascending (max-heap), non-increasing
\* for heap_sort_decending (min-heap).
C5_SortCorrect ==
    s_pc = "done" =>
        /\ SameElements(s_ary, s_in)
        /\ \A i, j \in DOMAIN s_ary :
              i < j => IF kind = "max" THEN s_ary[i] <= s_ary[j]
                                       ELSE s_ary[i] >= s_ary[j]
        /\ (kind = "max" /\ s_in = sort_ascending_values) =>
              s_ary = <<0, 1, 2, 3, 4, 5, 6, 7, 8, 9>>
        /\ (kind = "min" /\ s_in = sort_descending_values) =>
              s_ary = <<9, 8, 7, 6, 5, 4, 3, 2, 1, 0>>

C5_Witness ==
    /\ s_pc = "done"
    /\ kind = "min"
    /\ Len(s_in) = MaxSortLen
    /\ s_ary # s_in
    /\ \E i, j \in DOMAIN s_in : i # j /\ s_in[i] = s_in[j]
    /\ s_ary[1] # s_ary[Len(s_ary)]

\* ---- C6
\* C6: after insert changed an existing position p to v, draining the heap
\* yields the same sequence as draining a heap built from the other
\* elements with v pushed freshly; the test cases' sequences in particular.
C6_UpdateEquivalence ==
    InsertedAtExisting =>
        LET others == SubSeq(pre, 1, op.pos) \o SubSeq(pre, op.pos + 2, Len(pre))
            fresh == push(kind, construct(kind, others), op.value)
        IN  /\ drain(kind, array) = drain(kind, fresh)
            /\ (scenario = "test" /\ kind = "max" /\ op.value = 10) =>
                  drain(kind, array) = <<10, 9, 8, 7, 6, 4, 3, 2, 1, 0>>
            /\ (scenario = "test" /\ kind = "max" /\ op.value = -1) =>
                  drain(kind, array) = <<9, 8, 7, 6, 4, 3, 2, 1, 0, -1>>
            /\ (scenario = "test" /\ kind = "min" /\ op.value = 10) =>
                  drain(kind, array) = <<0, 1, 2, 3, 4, 6, 7, 8, 9, 10>>
            /\ (scenario = "test" /\ kind = "min" /\ op.value = -1) =>
                  drain(kind, array) = <<-1, 0, 1, 2, 3, 4, 6, 7, 8, 9>>

C6_Witness ==
    /\ InsertedAtExisting
    /\ scenario = "test"
    /\ kind = "max"
    /\ At(pre, op.pos) = 5
    /\ op.value = 10
    /\ At(array, 0) = 10

\* ---- C7
\* C7: top, pop and pop_value on a heap of size 0 throw "empty", return no
\* value and leave the heap as it was, still accepting a push.
C7_EmptyError ==
    /\ (op.name \in {"top", "pop", "pop_value"} /\ Len(pre) = 0) =>
          /\ op.error = "empty"
          /\ op.result = <<>>
          /\ array = pre
          /\ scenario = "any" => ENABLED ClientPush
    /\ op.error = "empty" => Len(pre) = 0

C7_Witness ==
    /\ op.name = "pop_value"
    /\ op.error = "empty"
    /\ Len(array) = 0
    /\ Len(out) >= 2

\* ---- C8
\* C8 as written: insert with a position that is neither end nor an
\* existing index fails with "index out of range" and leaves the array as
\* it was.
C8_IndexOutOfRange ==
    (op.name = "insert" /\ op.pos > Len(pre)) =>
        /\ op.error = "index out of range"
        /\ array = pre

\* ---- C9
RECURSIVE push_all(_, _, _)
\* xs pushed one element at a time, in order, onto heap a.
push_all(knd, a, xs) ==
    IF Len(xs) = 0 THEN a
    ELSE push_all(knd, push(knd, a, Head(xs)), Tail(xs))

\* C9: a heap constructed from xs is the same array as the one obtained by
\* pushing the elements of xs in order into an empty heap; the max-heap of
\* 0..9 is [9,8,5,6,7,1,4,0,3,2] and the min-heap of [9,8,5,6,7,1,4,0,3,2]
\* is [0,1,4,3,2,8,5,9,6,7].
C9_ConstructIsPushAll ==
    op.name = "construct" =>
        /\ array = push_all(kind, <<>>, op.input)
        /\ (kind = "max" /\ op.input = max_heap_init_val) =>
              array = <<9, 8, 5, 6, 7, 1, 4, 0, 3, 2>>
        /\ (kind = "min" /\ op.input = min_heap_init_val) =>
              array = <<0, 1, 4, 3, 2, 8, 5, 9, 6, 7>>

C9_Witness ==
    /\ op.name = "construct"
    /\ kind = "max"
    /\ op.input = max_heap_init_val
    /\ array = <<9, 8, 5, 6, 7, 1, 4, 0, 3, 2>>

\* ---- C10
\* C10: insert at an existing position whose value equals the new value
\* leaves the whole array identical.
C10_InsertSame ==
    (InsertedAtExisting /\ At(pre, op.pos) = op.value) => array = pre

C10_Witness ==
    /\ InsertedAtExisting
    /\ At(pre, op.pos) = op.value
    /\ op.pos = Len(pre) - 1
    /\ Len(pre) >= 3
    /\ array = pre

\* No child is before its parent in a.
IsHeap(knd, a) ==
    \A i \in 1..(Len(a) - 1) : ~Cmp(knd, At(a, i), At(a, CDiv(i - 1, 2)))

\* ---- C11
\* C11: heapify applied to an array that already satisfies the heap
\* invariant makes no swap and leaves the array unchanged: every input of
\* construction that is already a heap is kept as it is, and heapifying the
\* heap again in any later state changes nothing.
C11_HeapifyIdempotent ==
    /\ (op.name = "construct" /\ IsHeap(kind, op.input)) =>
          /\ array = op.input
          /\ heapify_swaps(kind, op.input) = 0
    /\ Alive =>
          /\ heapify(kind, array) = array
          /\ heapify_swaps(kind, array) = 0

C11_Witness ==
    /\ op.name = "construct"
    /\ IsHeap(kind, op.input)
    /\ Len(op.input) = MaxLen
    /\ At(op.input, 0) = At(op.input, 1)
    /\ At(op.input, 0) # At(op.input, 2)
    /\ At(op.input, 1) # At(op.input, 4)

\* ---- C13
\* C13: insert(end(), v) leaves the array push(v) leaves: v appended, then
\* sifted up from the new last index.
C13_InsertAtEndIsPush ==
    (op.name = "insert" /\ op.error = "none" /\ op.pos = Len(pre)) =>
        /\ array = push(kind, pre, op.value)
        /\ array = heapify_up(kind, Append(pre, op.value), Len(pre))

C13_Witness ==
    /\ op.name = "insert"
    /\ op.error = "none"
    /\ op.pos = Len(pre)
    /\ Len(pre) >= 3
    /\ At(array, 0) = op.value
    /\ At(pre, 0) # op.value

C15_OneSiftSuffices ==
    (InsertedAtExisting /\ At(pre, op.pos) # op.value) =>
        LET written == [pre EXCEPT ![op.pos + 1] = op.value]
        IN  /\ IsHeap(kind, array)
            /\ IF Cmp(kind, op.value, At(pre, op.pos))
               THEN /\ heapify_down(kind, written, Len(written), op.pos) = written
                    /\ array = heapify_up(kind, written, op.pos)
               ELSE /\ heapify_up(kind, written, op.pos) = written
                    /\ heapify_up_swaps(kind, written, op.pos) = 0
                    /\ array = heapify_down(kind, written, Len(written), op.pos)

C15_Witness ==
    /\ InsertedAtExisting
    /\ At(pre, op.pos) # op.value
    /\ ~Cmp(kind, op.value, At(pre, op.pos))
    /\ op.pos = 0
    /\ Len(pre) = MaxLen
    /\ At(array, 1) # op.value
    /\ At(array, 2) # op.value

\* a is in the order heap sort of the given kind produces: non-decreasing
\* for a max-heap (ascending), non-increasing for a min-heap (descending).
SortedFor(knd, a) ==
    \A i, j \in DOMAIN a : i < j => InOrder(knd, a[j], a[i])

\* ---- C12
\* C12: heap sort applied to an array already in its target order returns
\* the array equal to the input, and sorting the result again gives the
\* same array as sorting once.
C12_SortIdempotent ==
    s_pc = "done" =>
        /\ SortedFor(kind, s_in) => s_ary = s_in
        /\ s_ary = heap_sort(kind, s_in)
        /\ heap_sort(kind, s_ary) = s_ary

C12_Witness ==
    /\ s_pc = "done"
    /\ kind = "max"
    /\ SortedFor(kind, s_in)
    /\ Len(s_in) = MaxSortLen
    /\ s_in[1] # s_in[2]
    /\ s_in[2] = s_in[3]
    /\ s_in[3] # s_in[Len(s_in)]
    /\ s_ary = s_in

\* ---- C17
\* C17: after the build phase and after each extraction iteration of heap
\* sort, with active range [0, k): the prefix [0, k) is a heap; the suffix
\* [k, n) is sorted, holds its final values and no prefix element is before
\* a suffix element; the array is a permutation of the input; and the next
\* iteration stores the current root value in the slot it vacates.
C17_SortLoopInvariant ==
    s_pc = "loop" =>
        LET k == s_end
            n == Len(s_ary)
        IN  /\ IsHeap(kind, SubSeq(s_ary, 1, k))
            /\ SortedFor(kind, SubSeq(s_ary, k + 1, n))
            /\ \A i \in 0..(k - 1) : \A j \in k..(n - 1) :
                  ~Cmp(kind, At(s_ary, i), At(s_ary, j))
            /\ \A j \in k..(n - 1) :
                  At(s_ary, j) = At(heap_sort(kind, s_in), j)
            /\ SameElements(s_ary, s_in)
            /\ k > 0 =>
                  At(heap_sort_iteration(kind, s_ary, k), k - 1) = At(s_ary, 0)

C17_Witness ==
    /\ s_pc = "loop"
    /\ kind = "max"
    /\ Len(s_ary) = MaxSortLen
    /\ s_end = 3
    /\ At(s_ary, 0) # At(s_ary, 1)
    /\ At(s_ary, 0) = At(s_ary, 3)
    /\ At(s_ary, 3) # At(s_ary, 5)
    /\ s_ary # s_in

\* ---- C16
\* The candidates of a sift-down iteration at node over [0, size): the node
\* and its children inside the range.
Candidates(size, node) ==
    {node} \cup {c \in {node * 2 + 1, node * 2 + 2} : c < size}

\* C16: every iteration of sift-down dereferences each child whose index is
\* below the range end, and moves to the node's slot the one candidate among
\* node, left child and right child that no other candidate is before: the
\* node stays (no swap) when no child is strictly before it, the right child
\* is taken only when it is strictly before the left child, the left child
\* only when the right one is not strictly before it, and after the
\* iteration no candidate is before the element in the node's slot. The
\* iterations together compute heapify_down.
C16_SiftDownPicksWinner ==
    (f_op = "down" /\ f_from >= 0) =>
        LET node == f_from
            child == f_node
            before == IF child = node THEN f_ary ELSE Swap(f_ary, child, node)
            left == node * 2 + 1
            right == node * 2 + 2
            cands == Candidates(f_size, node)
        IN  IF node >= Len(f_ary)
            THEN \* empty memory: nothing is dereferenced
                 /\ cands = {node}
                 /\ child = node
                 /\ f_pc = "done"
                 /\ f_reads = {}
                 /\ f_ary = f_in
            ELSE
               /\ child \in cands
               /\ (cands \ {node}) \subseteq f_reads
               /\ \A c \in cands : ~Cmp(kind, At(before, c), At(before, child))
               /\ (\A c \in cands : ~Cmp(kind, At(before, c), At(before, node)))
                     => (child = node /\ f_ary = before /\ f_pc = "done")
               /\ child = right => Cmp(kind, At(before, right), At(before, left))
               /\ child = left =>
                     (right \in cands => ~Cmp(kind, At(before, right), At(before, left)))
               /\ child # node =>
                     /\ At(f_ary, node) = At(before, child)
                     /\ At(f_ary, child) = At(before, node)
                     /\ f_pc = "run"
               /\ \A c \in cands : ~Cmp(kind, At(f_ary, c), At(f_ary, node))
               /\ f_pc = "done" => f_ary = heapify_down(kind, f_in, f_size, f_start)

\* An iteration in which both children are before the node and the right
\* one is strictly before the left one: the right child was swapped up.
C16_Witness ==
    /\ f_op = "down"
    /\ kind = "max"
    /\ f_from = 0
    /\ f_node = 2
    /\ f_size >= 3
    /\ At(f_in, 1) > At(f_in, 0)
    /\ At(f_in, 2) > At(f_in, 1)
    /\ f_ary = Swap(f_in, 2, 0)
    /\ f_pc = "run"

\* ---- C18
\* C18: sift-down over [0, size) dereferences and writes only indexes below
\* size, and every slot it did not write holds what it held at the call;
\* sift-up from node i dereferences and writes only slots on the path from i
\* to the root, and every other slot holds what it held at the call; so the
\* next iteration of heap sort, whose sift-down runs over [0, end - 1),
\* leaves the suffix [end, n) as it is.
C18_Frame ==
    /\ f_op = "down" =>
          /\ \A i \in f_reads \cup f_writes : 0 <= i /\ i < f_size
          /\ Len(f_ary) = Len(f_in)
          /\ \A i \in 0..(Len(f_in) - 1) :
                (i \notin f_writes \/ i >= f_size) => At(f_ary, i) = At(f_in, i)
    /\ f_op = "up" =>
          /\ f_reads \cup f_writes \subseteq PathToRoot(f_start)
          /\ Len(f_ary) = Len(f_in)
          /\ \A i \in 0..(Len(f_in) - 1) :
                i \notin PathToRoot(f_start) => At(f_ary, i) = At(f_in, i)
    /\ (s_pc = "loop" /\ 0 < s_end) =>
          /\ \A j \in s_end..(Len(s_ary) - 1) :
                At(heap_sort_iteration(kind, s_ary, s_end), j) = At(s_ary, j)
          /\ \A j \in (s_end - 1)..(Len(s_ary) - 1) :
                At(heapify_down(kind, s_ary, s_end - 1, 0), j) = At(s_ary, j)

\* A sift-down over a range shorter than the memory that swapped down to
\* the last slot of the range, whose children lie past the range end and
\* hold values that are before it.
C18_Witness ==
    /\ f_op = "down"
    /\ kind = "max"
    /\ f_pc = "done"
    /\ f_size = 2
    /\ Len(f_ary) = MaxSiftLen
    /\ f_writes = {0, 1}
    /\ At(f_ary, 3) > At(f_ary, 1)
    /\ At(f_ary, 2) > At(f_ary, 0)

\* ---- C19
\* C19: every loop of the program ends: sift-up from any index (at index 0
\* the parent index is 0, the node is compared with itself and nothing is
\* swapped), sift-down from any index of any range (the empty range
\* included), the build loop of construct, and the loop of heap sort. push,
\* pop and insert are one sift each, and construct is the build loop.
C19_Terminates ==
    <>(f_pc = "done" \/ s_pc = "done")

\* Sift-up started at index 0 has ended after one comparison of the root
\* with itself and no swap.
C19_Witness ==
    /\ f_op = "up"
    /\ f_start = 0
    /\ f_pc = "done"
    /\ f_from = 0
    /\ direct_parent_idx(f_from) = 0
    /\ f_reads = {0}
    /\ f_writes = {}
    /\ Len(f_ary) = MaxSiftLen

\* ---- C20
\* Largest node index at which the two derivations are compared.
MaxNodeIdx == 64

\* C20 as stated: the parity-based derivation of the parent index gives the
\* same index as (i - 1) / 2 at every node index sift-up reaches.
C20_ParentIdentical ==
    (f_op = "up" /\ f_pc = "run") =>
        precision_parent_idx(f_node) = direct_parent_idx(f_node)

\* C20, amended: the two derivations give the same parent index at every
\* node index i >= 1; at i = 0 the parity-based one gives -1 (offset 2,
\* -2 / 2) where the direct one gives 0 (-1 / 2 truncates to 0); sift-up
\* gives the same array with either, since at the root the one stops on
\* 0 <= parent_idx and the other on comparing the root with itself.
C20_ParentIdenticalAboveRoot ==
    /\ \A i \in 1..MaxNodeIdx :
          precision_parent_idx(i) = direct_parent_idx(i)
    /\ precision_parent_idx(0) = -1
    /\ direct_parent_idx(0) = 0
    /\ (f_op = "up" /\ f_pc = "run") =>
          /\ f_node >= 1 =>
                precision_parent_idx(f_node) = direct_parent_idx(f_node)
          /\ heapify_up_precision(kind, f_ary, f_node)
                = heapify_up(kind, f_ary, f_node)
          /\ heapify_up_precision(kind, f_in, f_start)
                = heapify_up(kind, f_in, f_start)

\* Sift-up has swapped its way from index 3 to the root and is about to
\* compute the parent index of node 0.
C20_Witness ==
    /\ f_op = "up"
    /\ f_pc = "run"
    /\ f_start = 3
    /\ f_node = 0
    /\ f_writes = {0, 1, 3}

====
